---- MODULE Spec2Model ----
(***************************************************************************)
(* ledger-reconcile: the ledger-file mutation engine.                      *)
(*                                                                         *)
(* LedgerFileEditor.update_postings_status (file_editor.py) on top of      *)
(* SafeFileEditor.read_lines_safely / write_lines_safely (file_watcher.py),*)
(* with an external writer of the same file and the wall clock as the      *)
(* environment.  A line is a sequence of one-character strings; a file is  *)
(* a sequence of lines, each carrying its own terminator.                  *)
(***************************************************************************)
EXTENDS Integers, Sequences, FiniteSets, TLC

\* ------------------------------------------------------------------------
\* Bounds of the model
\* ------------------------------------------------------------------------
MaxLines == 4
MaxHeadless == 2
MaxTargets == 2
MaxClock == 3
MaxCalls == 2
MaxExternal == 2
MaxEvents == 2
MaxLineLen == 5

\* ------------------------------------------------------------------------
\* Characters and the str / re primitives the editor uses
\* ------------------------------------------------------------------------
Whitespace == {" ", "\t", "\n", "\r"}
Digits == {"0", "1", "2", "3", "4", "5", "6", "7", "8", "9"}
Markers == {"!", "*"}
Status == {"", "!", "*"}

RECURSIVE lstrip(_)
lstrip(s) == IF s # <<>> /\ Head(s) \in Whitespace THEN lstrip(Tail(s)) ELSE s

RECURSIVE rstrip(_)
rstrip(s) ==
    IF s # <<>> /\ s[Len(s)] \in Whitespace
    THEN rstrip(SubSeq(s, 1, Len(s) - 1))
    ELSE s

strip(s) == lstrip(rstrip(s))

RECURSIVE rstrip_newline(_)
rstrip_newline(s) ==
    IF s # <<>> /\ s[Len(s)] = "\n"
    THEN rstrip_newline(SubSeq(s, 1, Len(s) - 1))
    ELSE s

\* re.match(r"^\d{4}[-/]\d{2}[-/]\d{2}", s)
date_match(s) ==
    /\ Len(s) >= 10
    /\ \A i \in {1, 2, 3, 4, 6, 7, 9, 10} : s[i] \in Digits
    /\ s[5] \in {"-", "/"}
    /\ s[8] \in {"-", "/"}

\* line.startswith((" ", "\t"))
starts_indented(line) == line # <<>> /\ line[1] \in {" ", "\t"}

\* the leading whitespace of line_without_newline:
\* line_without_newline[: len(line_without_newline) - len(line_without_newline.lstrip())]
leading_ws(s) == SubSeq(s, 1, Len(s) - Len(lstrip(s)))

\* ------------------------------------------------------------------------
\* Status Line Classifier
\* ------------------------------------------------------------------------
extract_posting_status(line) ==
    LET stripped == lstrip(line)
    IN  IF stripped # <<>> /\ stripped[1] \in Markers THEN stripped[1] ELSE ""

\* mutant: the comment test is missing
is_valid_posting_line_accepts_comment(line) ==
    LET stripped == strip(line)
    IN  IF stripped = <<>> THEN FALSE
        ELSE IF date_match(stripped) THEN FALSE
        ELSE starts_indented(line)

is_valid_posting_line(line) ==
    LET stripped == strip(line)
    IN  IF stripped = <<>> THEN FALSE
        ELSE IF stripped[1] = ";" THEN FALSE
        ELSE IF date_match(stripped) THEN FALSE
        ELSE starts_indented(line)

\* group 2 of r"^\d{4}[-/]\d{2}[-/]\d{2}\s*([!*]?)" on trans_line.strip();
\* "" when the line does not match
header_status(trans_line) ==
    LET s == strip(trans_line)
        rest == lstrip(SubSeq(s, 11, Len(s)))
    IN  IF ~date_match(s) THEN ""
        ELSE IF rest # <<>> /\ rest[1] \in Markers THEN rest[1] ELSE ""

update_transaction_line(line, new_status) ==
    LET line_without_newline == rstrip_newline(line)
        s == strip(line_without_newline)
        date == SubSeq(s, 1, 10)
        after_date == lstrip(SubSeq(s, 11, Len(s)))
        after_status ==
            IF after_date # <<>> /\ after_date[1] \in Markers
            THEN Tail(after_date) ELSE after_date
        description == lstrip(after_status)
        has_newline == line # <<>> /\ line[Len(line)] = "\n"
        new_line ==
            IF new_status # ""
            THEN leading_ws(line_without_newline) \o date \o <<" ", new_status, " ">>
                    \o description
            ELSE leading_ws(line_without_newline) \o date \o <<" ">> \o description
    IN  IF ~date_match(s) THEN line
        ELSE IF has_newline THEN new_line \o <<"\n">> ELSE new_line

\* mutant: removing a marker leaves the space that followed it
update_posting_line_keeps_space(line, new_status) ==
    LET line_without_newline == rstrip_newline(line)
        stripped0 == lstrip(line_without_newline)
        has_newline == line # <<>> /\ line[Len(line)] = "\n"
        has_existing_status == stripped0 # <<>> /\ stripped0[1] \in Markers
        stripped == IF has_existing_status THEN Tail(stripped0) ELSE stripped0
        new_line ==
            IF new_status # ""
            THEN leading_ws(line_without_newline) \o <<new_status, " ">> \o stripped
            ELSE leading_ws(line_without_newline) \o stripped
    IN  IF strip(line) = <<>> THEN line
        ELSE IF new_status = "" /\ ~has_existing_status THEN line
        ELSE IF has_newline THEN new_line \o <<"\n">> ELSE new_line

update_posting_line(line, new_status) ==
    LET line_without_newline == rstrip_newline(line)
        stripped0 == lstrip(line_without_newline)
        has_newline == line # <<>> /\ line[Len(line)] = "\n"
        has_existing_status == stripped0 # <<>> /\ stripped0[1] \in Markers
        stripped == IF has_existing_status THEN lstrip(Tail(stripped0)) ELSE stripped0
        new_line ==
            IF new_status # ""
            THEN leading_ws(line_without_newline) \o <<new_status, " ">> \o stripped
            ELSE leading_ws(line_without_newline) \o stripped
    IN  IF strip(line) = <<>> THEN line
        ELSE IF new_status = "" /\ ~has_existing_status THEN line
        ELSE IF has_newline THEN new_line \o <<"\n">> ELSE new_line

\* ------------------------------------------------------------------------
\* Transaction Boundary Resolver (0 stands for None)
\* ------------------------------------------------------------------------
\* mutant: the backward scan steps over blank lines
RECURSIVE scan_backward_crosses_blank(_, _)
scan_backward_crosses_blank(ls, i) ==
    IF i < 1 THEN 0
    ELSE IF date_match(strip(ls[i])) THEN i
    ELSE scan_backward_crosses_blank(ls, i - 1)

RECURSIVE scan_backward(_, _)
scan_backward(ls, i) ==
    IF i < 1 THEN 0
    ELSE IF date_match(strip(ls[i])) THEN i
    ELSE IF strip(ls[i]) = <<>> THEN 0
    ELSE scan_backward(ls, i - 1)

find_transaction_for_posting(ls, posting_line_num) ==
    scan_backward(ls, posting_line_num - 1)

\* mutant: the forward scan does not stop at a non-indented line
RECURSIVE scan_forward_past_unindented(_, _)
scan_forward_past_unindented(ls, i) ==
    IF i > Len(ls) THEN <<>>
    ELSE IF strip(ls[i]) = <<>> THEN <<>>
    ELSE IF date_match(strip(ls[i])) THEN <<>>
    ELSE <<i>> \o scan_forward_past_unindented(ls, i + 1)

RECURSIVE scan_forward(_, _)
scan_forward(ls, i) ==
    IF i > Len(ls) THEN <<>>
    ELSE IF strip(ls[i]) = <<>> THEN <<>>
    ELSE IF date_match(strip(ls[i])) THEN <<>>
    ELSE IF lstrip(ls[i]) # <<>> /\ ~starts_indented(ls[i]) THEN <<>>
    ELSE <<i>> \o scan_forward(ls, i + 1)

find_all_postings_for_transaction(ls, trans_line_num) ==
    scan_forward(ls, trans_line_num + 1)

\* ------------------------------------------------------------------------
\* Effective Status Resolver
\* ------------------------------------------------------------------------
\* mutant: the header's marker is looked at first
get_effective_posting_status_header_first(ls, posting_line_num, trans_line_num) ==
    IF header_status(ls[trans_line_num]) # "" THEN header_status(ls[trans_line_num])
    ELSE extract_posting_status(ls[posting_line_num])

get_effective_posting_status(ls, posting_line_num, trans_line_num) ==
    LET posting_status == extract_posting_status(ls[posting_line_num])
    IN  IF posting_status # "" THEN posting_status
        ELSE header_status(ls[trans_line_num])

\* ------------------------------------------------------------------------
\* Status Update Planner: the in-memory part of update_postings_status
\* ------------------------------------------------------------------------
Range(seq) == {seq[k] : k \in 1..Len(seq)}

\* one iteration of the validation loop: TRUE when the loop goes on
\* mutant: the status found is not compared with the expected one
target_passes_any_status(ls, line_num, expected) ==
    IF line_num < 1 \/ line_num > Len(ls) THEN FALSE
    ELSE IF ~is_valid_posting_line(ls[line_num]) THEN FALSE
    ELSE find_transaction_for_posting(ls, line_num) # 0

target_passes(ls, line_num, expected) ==
    IF line_num < 1 \/ line_num > Len(ls) THEN FALSE
    ELSE IF ~is_valid_posting_line(ls[line_num]) THEN FALSE
    ELSE IF find_transaction_for_posting(ls, line_num) = 0 THEN FALSE
    ELSE get_effective_posting_status(
             ls, line_num, find_transaction_for_posting(ls, line_num)) = expected

\* mutant: only the first target is validated
validation_first_target_only(ls, targets, expected) ==
    target_passes(ls, targets[1], expected)

validation_passes(ls, targets, expected) ==
    \A k \in 1..Len(targets) : target_passes(ls, targets[k], expected)

\* lines 227-228 of the grouping loop: no target without an owning transaction
grouping_resolves(ls, targets) ==
    \A k \in 1..Len(targets) : find_transaction_for_posting(ls, targets[k]) # 0

\* the keys of the dict `transactions`, in insertion order
RECURSIVE transaction_keys(_, _, _)
transaction_keys(ls, targets, k) ==
    IF k > Len(targets) THEN <<>>
    ELSE LET t == find_transaction_for_posting(ls, targets[k])
             earlier == {find_transaction_for_posting(ls, targets[j]) : j \in 1..(k - 1)}
         IN  IF t \in earlier
             THEN transaction_keys(ls, targets, k + 1)
             ELSE <<t>> \o transaction_keys(ls, targets, k + 1)

\* transactions[trans_line_num], as the set its membership test reads
postings_in_trans(ls, targets, trans_line_num) ==
    {targets[k] : k \in {j \in 1..Len(targets) :
                          find_transaction_for_posting(ls, targets[j]) = trans_line_num}}

\* mutant: the collapse leaves the postings' own markers in place
process_transaction_collapse_keeps_markers(ls, trans_line_num, in_trans, new) ==
    LET all_posting_lines == find_all_postings_for_transaction(ls, trans_line_num)
        final_statuses ==
            [p \in Range(all_posting_lines) |->
                IF p \in in_trans THEN new
                ELSE get_effective_posting_status(ls, p, trans_line_num)]
        unique_statuses == {final_statuses[p] : p \in Range(all_posting_lines)}
        all_same_status == Cardinality(unique_statuses) = 1
    IN  IF all_same_status /\ all_posting_lines # <<>>
        THEN [i \in 1..Len(ls) |->
                IF i = trans_line_num THEN update_transaction_line(ls[i], new)
                ELSE ls[i]]
        ELSE [i \in 1..Len(ls) |->
                IF i = trans_line_num THEN update_transaction_line(ls[i], "")
                ELSE IF i \in Range(all_posting_lines)
                     THEN update_posting_line(ls[i], final_statuses[i])
                ELSE ls[i]]

\* mutant: the per-posting branch rewrites the targeted postings only
process_transaction_targets_only(ls, trans_line_num, in_trans, new) ==
    LET all_posting_lines == find_all_postings_for_transaction(ls, trans_line_num)
        final_statuses ==
            [p \in Range(all_posting_lines) |->
                IF p \in in_trans THEN new
                ELSE get_effective_posting_status(ls, p, trans_line_num)]
        unique_statuses == {final_statuses[p] : p \in Range(all_posting_lines)}
        all_same_status == Cardinality(unique_statuses) = 1
    IN  IF all_same_status /\ all_posting_lines # <<>>
        THEN [i \in 1..Len(ls) |->
                IF i = trans_line_num THEN update_transaction_line(ls[i], new)
                ELSE IF i \in Range(all_posting_lines) THEN update_posting_line(ls[i], "")
                ELSE ls[i]]
        ELSE [i \in 1..Len(ls) |->
                IF i = trans_line_num THEN update_transaction_line(ls[i], "")
                ELSE IF i \in Range(all_posting_lines) /\ i \in in_trans
                     THEN update_posting_line(ls[i], final_statuses[i])
                ELSE ls[i]]

\* the body of the loop over transactions.items()
process_transaction(ls, trans_line_num, in_trans, new) ==
    LET all_posting_lines == find_all_postings_for_transaction(ls, trans_line_num)
        final_statuses ==
            [p \in Range(all_posting_lines) |->
                IF p \in in_trans THEN new
                ELSE get_effective_posting_status(ls, p, trans_line_num)]
        unique_statuses == {final_statuses[p] : p \in Range(all_posting_lines)}
        all_same_status == Cardinality(unique_statuses) = 1
    IN  IF all_same_status /\ all_posting_lines # <<>>
        THEN [i \in 1..Len(ls) |->
                IF i = trans_line_num THEN update_transaction_line(ls[i], new)
                ELSE IF i \in Range(all_posting_lines) THEN update_posting_line(ls[i], "")
                ELSE ls[i]]
        ELSE [i \in 1..Len(ls) |->
                IF i = trans_line_num THEN update_transaction_line(ls[i], "")
                ELSE IF i \in Range(all_posting_lines)
                     THEN update_posting_line(ls[i], final_statuses[i])
                ELSE ls[i]]

\* mutant: only the transaction of the first target is rewritten
process_transactions_first_key_only(ls, keys, groups, new, k) ==
    IF k > Len(keys) THEN ls
    ELSE process_transaction(ls, keys[k], groups[keys[k]], new)

RECURSIVE process_transactions(_, _, _, _, _)
process_transactions(ls, keys, groups, new, k) ==
    IF k > Len(keys) THEN ls
    ELSE process_transactions(
             process_transaction(ls, keys[k], groups[keys[k]], new),
             keys, groups, new, k + 1)

\* lines 221-277: grouping, then the rewrite of every affected transaction
rewrite_lines(ls, targets, new) ==
    LET keys == transaction_keys(ls, targets, 1)
        groups == [t \in Range(keys) |-> postings_in_trans(ls, targets, t)]
    IN  process_transactions(ls, keys, groups, new, 1)

\* ------------------------------------------------------------------------
\* Ledger lines and files the model draws its inputs from
\* ------------------------------------------------------------------------
Date == <<"2", "0", "2", "4", "-", "0", "1", "-", "0", "1">>
HeaderPlain == Date \o <<" ", "T", "\n">>
HeaderCleared == Date \o <<" ", "*", " ", "T", "\n">>
PostingPlain == <<" ", " ", "A", "\n">>
PostingPending == <<" ", " ", "!", " ", "A", "\n">>
PostingCleared == <<" ", " ", "*", " ", "A", "\n">>
IndentedComment == <<" ", " ", ";", "\n">>
CommentLine == <<";", "\n">>
BlankLine == <<"\n">>

LinePool ==
    {HeaderPlain, HeaderCleared, PostingPlain, PostingPending,
     IndentedComment, CommentLine, BlankLine}

SeqsUpTo(S, n) == UNION {[1..k -> S] : k \in 0..n}

\* ledger files of up to MaxLines lines that open with a transaction header,
\* and every file of up to MaxHeadless lines
PlannerFiles ==
    {f \in SeqsUpTo(LinePool, MaxLines) :
        f # <<>> /\ (date_match(strip(f[1])) \/ Len(f) <= MaxHeadless)}

\* lines that try the scans and the classifier: whitespace only, not
\* indented, and a dated line that is indented
SpaceLine == <<" ", " ", "\n">>
OtherLine == <<"A", "\n">>
HeaderIndented == <<" ">> \o Date \o <<" ", "T", "\n">>
ScanPool == LinePool \cup {SpaceLine, OtherLine, HeaderIndented}
ScanFiles ==
    {f \in SeqsUpTo(ScanPool, MaxLines) :
        f # <<>> /\ (date_match(strip(f[1])) \/ Len(f) <= MaxHeadless)}

\* the files of the calls made one after the other: one header, then postings,
\* non-indented comments and blank lines
SeqPool == {HeaderPlain, PostingPlain, PostingPending, CommentLine, BlankLine}
SeqFiles ==
    {f \in SeqsUpTo(SeqPool, MaxLines) :
        /\ f # <<>>
        /\ f[1] = HeaderPlain
        /\ \A i \in 2..Len(f) : f[i] # HeaderPlain}

\* lines whose spacing, indentation or terminator is not the plain one
HeaderWide == Date \o <<" ", " ", "T", " ", "\n">>
HeaderClearedWide == Date \o <<" ", "*", " ", " ", "T", "\n">>
PostingPendingWide == <<" ", " ", "!", " ", " ", "A", "\n">>
PostingTab == <<"\t", "A", " ", "\n">>
PostingUnterminated == <<" ", " ", "*", " ", "A">>

TextHeaders == {HeaderPlain, HeaderCleared, HeaderWide, HeaderClearedWide}
TextPostings == {PostingPlain, PostingPending, PostingPendingWide, PostingTab}
TextFiles ==
    {<<h, p, q>> : h \in TextHeaders, p \in TextPostings,
                   q \in TextPostings \cup {PostingUnterminated}}

\* single lines for the line rewrites: every text of up to MaxLineLen
\* characters, and every header made of an optional indent, a date and up to
\* MaxLineLen - 1 characters, each with and without its terminator
LineChars == {" ", "\t", "!", "*", "A"}
Terminators == {<<>>, <<"\n">>}
PostingTexts == {b \o t : b \in SeqsUpTo(LineChars, MaxLineLen), t \in Terminators}
HeaderTexts ==
    {w \o Date \o b \o t : w \in {<<>>, <<" ">>},
                            b \in SeqsUpTo(LineChars, MaxLineLen - 1),
                            t \in Terminators}
RewriteInputs == PostingTexts \cup HeaderTexts

\* the files of the specification with the external writer
RaceFiles ==
    {<<HeaderPlain, PostingPending, PostingPlain>>,
     <<HeaderCleared, PostingPlain>>}
ExternalFiles ==
    {<<HeaderPlain, PostingPlain, PostingPlain>>,
     <<HeaderPlain, PostingCleared>>}

\* the target lists the callers of the specification with the external writer pass
RaceTargets == {<<2>>, <<2, 3>>, <<4>>}

\* the non-empty target lists a caller may pass for a file of n lines
\* (n + 1 is out of range, and so is 0)
TargetLists(n) == UNION {[1..k -> 0..(n + 1)] : k \in 1..MaxTargets}

\* ------------------------------------------------------------------------
\* State
\* ------------------------------------------------------------------------
VARIABLES
    file_exists,            \* the ledger path exists
    file_lines,             \* content at the ledger path
    mtime,                  \* st_mtime of the ledger path
    tmp_exists,             \* the sibling <name>.tmp exists
    tmp_lines,              \* its content
    tmp_mtime,              \* its st_mtime, which the rename carries over
    clock,                  \* time.time()
    pc,                     \* position of the running update_postings_status call
    posting_line_numbers,   \* its arguments
    transaction_line_number,\* the argument of update_all_postings_in_transaction
    line_number,            \* the argument of update_transaction_status / update_posting_status
    operation,              \* the method of LedgerFileEditor the call is of
                            \* (0 in a call of update_postings_status)
    expected_current_status,
    new_status,
    lines,                  \* its in-memory line buffer
    read_time,              \* its fencing token
    result,                 \* its return value, once pc = "done"
    ignore_next_change,     \* LedgerFileWatcher.ignore_next_change
    last_modification_time, \* LedgerFileWatcher.last_modification_time
    calls,                  \* calls returned so far
    ext_count,              \* external modifications so far
    read_lines,             \* history: the buffer as readlines() returned it
    pre_mtime,              \* history: st_mtime when the call began
    outcome,                \* history: the return statement the call took
    ext_since_read,         \* history: an external write followed readlines()
    clobbered,              \* history: the rename replaced such an external write
                            \*          by different content
    ext_lines,              \* history: the content of the last external write
    marked,                 \* history: the call has invoked mark_internal_change
    n_reads,                \* history: readlines() of the call so far
    n_renames,              \* history: renames of the call so far
    ext_between,            \* history: the ledger holds an external version written
                            \*          after a call returned, untouched since
    prev_lines,             \* history: the content the previous call left, while no
                            \* other process has touched the file since
    prev_targets,           \* history: the targets of that call, when it returned True
    prev_read,              \* history: the lines that call read
    prev_expected,          \* history: its expected_current_status
    prev_new,               \* history: its new_status
    notification,           \* what action_toggle_status last told the user
    fired,                  \* history: <<event, mtime seen>> of the on_change calls made
                            \* for the events of external modifications
    dropped,                \* history: <<event, mtime seen>> of the events of external
                            \* modifications that the mtime test dropped
    twice,                  \* history: on_change was called again for an event of the
                            \* same modification that saw the same mtime
    read_ext,               \* history: the call read that version, and nothing
                            \*          external happened since
    watching,               \* LedgerFileWatcher.observer is not None
    events,                 \* file events of the ledger path not yet dispatched
    on_change_self,         \* history: on_change ran on an event of a core write
                            \*          while the ledger held that write
    unnotified,             \* history: an external write advanced st_mtime of the
                            \*          file, which is still there, and on_change has
                            \*          not run since
    self_written,           \* history: the ledger holds a version the core wrote
    arg_line,               \* the line handed to a line rewrite
    arg_status,             \* the status handed to it
    out_line,               \* what the rewrite returned
    out_again,              \* what a second rewrite of out_line returned
    step                    \* which rewrites have been applied

vars ==
    <<file_exists, file_lines, mtime, tmp_exists, tmp_lines, tmp_mtime, clock, pc,
      transaction_line_number, line_number, operation,
      posting_line_numbers, expected_current_status, new_status, lines,
      read_time, result, ignore_next_change, last_modification_time, calls,
      ext_count, read_lines, pre_mtime, outcome, ext_since_read, clobbered,
      ext_lines, marked, n_reads, n_renames, ext_between, read_ext, prev_lines,
      prev_targets, prev_read, prev_expected, prev_new, notification,
      fired, twice, dropped,
      watching,
      events, on_change_self, unnotified, self_written, arg_line, arg_status,
      out_line, out_again, step>>

disk == <<file_exists, file_lines, mtime>>
temp == <<tmp_exists, tmp_lines, tmp_mtime>>
args == <<posting_line_numbers, expected_current_status, new_status,
         transaction_line_number, line_number, operation>>
watcher == <<ignore_next_change, last_modification_time>>
counters == <<calls, ext_count>>
tally == <<marked, n_reads, n_renames>>
between == <<ext_between, read_ext>>
earlier == <<prev_lines, prev_targets, prev_read, prev_expected, prev_new>>
ui == <<notification>>
dispatch == <<fired, twice, dropped>>
observer == <<watching, events, on_change_self, unnotified, self_written>>
rewriter == <<arg_line, arg_status, out_line, out_again, step>>

CallIdle ==
    /\ pc = "idle"
    /\ posting_line_numbers = <<>>
    /\ transaction_line_number = 0
    /\ line_number = 0
    /\ operation = "none"
    /\ expected_current_status = ""
    /\ new_status = ""
    /\ lines = <<>>
    /\ read_time = 0
    /\ result = FALSE
    /\ read_lines = <<>>
    /\ pre_mtime = 0
    /\ outcome = "none"
    /\ ext_since_read = FALSE
    /\ clobbered = FALSE
    /\ marked = FALSE
    /\ n_reads = 0
    /\ n_renames = 0
    /\ read_ext = FALSE

InitCommon ==
    /\ tmp_exists = FALSE
    /\ tmp_lines = <<>>
    /\ tmp_mtime = 0
    /\ CallIdle
    /\ ignore_next_change = FALSE
    /\ calls = 0
    /\ ext_count = 0
    /\ ext_lines = <<>>
    /\ ext_between = FALSE
    /\ prev_lines = <<>>
    /\ prev_targets = <<>>
    /\ prev_read = <<>>
    /\ prev_expected = ""
    /\ prev_new = ""
    /\ notification = "none"
    /\ fired = {}
    /\ twice = FALSE
    /\ dropped = {}
    /\ events = <<>>
    /\ on_change_self = FALSE
    /\ unnotified = FALSE
    /\ self_written = FALSE

NoRewrite ==
    /\ arg_line = <<>>
    /\ arg_status = ""
    /\ out_line = <<>>
    /\ out_again = <<>>
    /\ step = "none"

Init ==
    /\ file_exists = TRUE
    /\ file_lines \in RaceFiles
    /\ mtime = 1
    /\ clock = 1
    /\ InitCommon
    /\ last_modification_time = 0
    /\ watching = FALSE
    /\ NoRewrite

InitPlanner ==
    /\ file_exists = TRUE
    /\ file_lines \in PlannerFiles
    /\ mtime = 1
    /\ clock = 2
    /\ InitCommon
    /\ last_modification_time = 0
    /\ watching = FALSE
    /\ NoRewrite

InitText ==
    /\ file_exists = TRUE
    /\ file_lines \in TextFiles
    /\ mtime = 1
    /\ clock = 2
    /\ InitCommon
    /\ last_modification_time = 0
    /\ watching = FALSE
    /\ NoRewrite

\* ------------------------------------------------------------------------
\* update_postings_status, one action per step the environment can interleave
\* ------------------------------------------------------------------------
get_modification_time == IF file_exists THEN mtime ELSE 0

\* mutant: the empty batch goes through the read before it returns True
EmptyBatchReads(expected, new) ==
    /\ pc = "idle"
    /\ calls < MaxCalls
    /\ posting_line_numbers' = <<>>
    /\ transaction_line_number' = 0
    /\ line_number' = 0
    /\ operation' = "update_postings_status"
    /\ expected_current_status' = expected
    /\ new_status' = new
    /\ pre_mtime' = get_modification_time
    /\ pc' = "done"
    /\ result' = TRUE
    /\ outcome' = "empty"
    /\ n_reads' = n_reads + 1
    /\ UNCHANGED <<disk, temp, clock, lines, read_time, watcher, counters,
                   read_lines, ext_since_read, clobbered, ext_lines, marked,
                   n_renames, between, observer, rewriter, earlier, ui, dispatch>>

\* mutant: the empty batch tells the watcher that a write is coming
EmptyBatchMarks(expected, new) ==
    /\ pc = "idle"
    /\ calls < MaxCalls
    /\ posting_line_numbers' = <<>>
    /\ transaction_line_number' = 0
    /\ line_number' = 0
    /\ operation' = "update_postings_status"
    /\ expected_current_status' = expected
    /\ new_status' = new
    /\ pre_mtime' = get_modification_time
    /\ ignore_next_change' = TRUE
    /\ last_modification_time' = get_modification_time
    /\ marked' = TRUE
    /\ pc' = "done"
    /\ result' = TRUE
    /\ outcome' = "empty"
    /\ UNCHANGED <<disk, temp, clock, lines, read_time, counters,
                   read_lines, ext_since_read, clobbered, ext_lines, n_reads,
                   n_renames, between, observer, rewriter, earlier, ui, dispatch>>

\* lines 200-201: the empty batch returns True before anything is read
EmptyBatch(expected, new) ==
    /\ pc = "idle"
    /\ calls < MaxCalls
    /\ posting_line_numbers' = <<>>
    /\ transaction_line_number' = 0
    /\ line_number' = 0
    /\ operation' = "update_postings_status"
    /\ expected_current_status' = expected
    /\ new_status' = new
    /\ pre_mtime' = get_modification_time
    /\ pc' = "done"
    /\ result' = TRUE
    /\ outcome' = "empty"
    /\ UNCHANGED <<disk, temp, clock, lines, read_time, watcher, counters,
                   read_lines, ext_since_read, clobbered, ext_lines, tally,
                   between, observer, rewriter, earlier, ui, dispatch>>

\* read_lines_safely's readlines() of a call with a non-empty batch ([] when
\* the file does not exist).  The arguments are first looked at by the
\* validation loop, so the model draws them in PlanBatch.
ReadLines ==
    /\ pc = "idle"
    /\ calls < MaxCalls
    /\ pc' = "read"
    /\ lines' = IF file_exists THEN file_lines ELSE <<>>
    /\ read_lines' = lines'
    /\ pre_mtime' = get_modification_time
    /\ n_reads' = n_reads + 1
    /\ read_ext' = ext_between
    /\ UNCHANGED <<disk, temp, clock, args, read_time, result, watcher,
                   counters, outcome, ext_since_read, clobbered, ext_lines,
                   marked, n_renames, ext_between, observer, rewriter, earlier, ui, dispatch>>

\* read_time = time.time(), then lines 206-277 on the buffer
PlanBatch(targets, expected, new) ==
    /\ pc = "read"
    /\ read_time' = clock
    /\ posting_line_numbers' = targets
    /\ transaction_line_number' = 0
    /\ line_number' = 0
    /\ operation' = "update_postings_status"
    /\ expected_current_status' = expected
    /\ new_status' = new
    /\ IF validation_passes(lines, targets, expected) /\ grouping_resolves(lines, targets)
       THEN /\ lines' = rewrite_lines(lines, targets, new)
            /\ pc' = "mark"
            /\ UNCHANGED <<result, outcome>>
       ELSE /\ pc' = "done"
            /\ result' = FALSE
            /\ outcome' = "precondition"
            /\ UNCHANGED lines
    /\ UNCHANGED <<disk, temp, clock, watcher, counters, read_lines,
                   pre_mtime, ext_since_read, clobbered, ext_lines, tally,
                   between, observer, rewriter, earlier, ui, dispatch>>

\* lines 279-281: file_watcher.mark_internal_change()
mark_internal_change ==
    /\ pc = "mark"
    /\ ignore_next_change' = TRUE
    /\ last_modification_time' = get_modification_time
    /\ marked' = TRUE
    /\ pc' = "stat"
    /\ UNCHANGED <<disk, temp, clock, args, lines, read_time, result, counters,
                   read_lines, pre_mtime, outcome, ext_since_read, clobbered,
                   ext_lines, n_reads, n_renames, between, observer, rewriter, earlier, ui, dispatch>>

\* mutant: the fencing check also refuses an mtime equal to read_time
mtime_check_refuses_equal == file_exists /\ mtime >= read_time

\* mutant: the fencing check refuses when the file is not there
mtime_check_refuses_missing == ~file_exists \/ mtime > read_time

\* write_lines_safely's fencing check
mtime_check_refuses == file_exists /\ mtime > read_time

CheckMtime ==
    /\ pc = "stat"
    /\ IF mtime_check_refuses
       THEN /\ pc' = "done"
            /\ result' = FALSE
            /\ outcome' = "refused"
       ELSE /\ pc' = "write_temp"
            /\ UNCHANGED <<result, outcome>>
    /\ UNCHANGED <<disk, temp, clock, args, lines, read_time, watcher, counters,
                   read_lines, pre_mtime, ext_since_read, clobbered, ext_lines,
                   tally, between, observer, rewriter, earlier, ui, dispatch>>

\* temp_file.open("w"): the sibling temp file exists and is empty
OpenTemp ==
    /\ pc = "write_temp"
    /\ tmp_exists' = TRUE
    /\ tmp_lines' = <<>>
    /\ tmp_mtime' = clock
    /\ pc' = "writelines"
    /\ UNCHANGED <<disk, clock, args, lines, read_time, result, watcher,
                   counters, read_lines, pre_mtime, outcome, ext_since_read,
                   clobbered, ext_lines, tally, between, observer, rewriter, earlier, ui, dispatch>>

\* mutant: the lines are written to the ledger path itself, one at a time
WriteLinesInPlace ==
    /\ pc = "writelines"
    /\ LET k == Len(tmp_lines) + 1
       IN  /\ tmp_lines' = Append(tmp_lines, lines[k])
           /\ tmp_mtime' = clock
           /\ file_lines' = Append(tmp_lines, lines[k])
           /\ pc' = IF k >= Len(lines) THEN "rename" ELSE "writelines"
    /\ file_exists' = TRUE
    /\ mtime' = clock
    /\ UNCHANGED <<tmp_exists, clock, args, lines, read_time, result, watcher,
                   counters, read_lines, pre_mtime, outcome, ext_since_read,
                   clobbered, ext_lines, tally, between, observer, rewriter, earlier, ui, dispatch>>

\* f.writelines(lines) on the temp file, one line at a time; the buffer of a
\* call that got here is never empty
WriteLines ==
    /\ pc = "writelines"
    /\ LET k == Len(tmp_lines) + 1
       IN  /\ tmp_lines' = Append(tmp_lines, lines[k])
           /\ tmp_mtime' = clock
           /\ pc' = IF k >= Len(lines) THEN "rename" ELSE "writelines"
    /\ UNCHANGED <<disk, tmp_exists, clock, args, lines, read_time, result,
                   watcher, counters, read_lines, pre_mtime, outcome,
                   ext_since_read, clobbered, ext_lines, tally, between,
                   observer, rewriter, earlier, ui, dispatch>>

\* temp_file.replace(self.file_path); with an observer running the rename
\* shows as one or more events of the ledger path (moved, created, modified)
Rename ==
    /\ pc = "rename"
    /\ file_exists' = TRUE
    /\ file_lines' = tmp_lines
    /\ mtime' = tmp_mtime
    /\ tmp_exists' = FALSE
    /\ tmp_lines' = <<>>
    /\ tmp_mtime' = 0
    /\ clobbered' = (/\ ext_since_read
                     /\ file_exists
                     /\ file_lines = ext_lines
                     /\ file_lines # tmp_lines)
    /\ pc' = "done"
    /\ result' = TRUE
    /\ outcome' = "written"
    /\ n_renames' = n_renames + 1
    /\ ext_between' = FALSE
    /\ self_written' = watching
    /\ \E k \in (IF watching THEN 1..MaxEvents ELSE {0}) :
          events' = events \o [i \in 1..k |-> "self"]
    /\ UNCHANGED <<clock, args, lines, read_time, watcher, counters, read_lines,
                   pre_mtime, ext_since_read, ext_lines, marked, n_reads,
                   read_ext, watching, on_change_self, unnotified, rewriter, earlier, ui, dispatch>>

\* mutant: the failed write leaves its temp file behind
WriteFailsLeavesTemp ==
    /\ pc \in {"write_temp", "writelines", "rename"}
    /\ pc' = "done"
    /\ result' = FALSE
    /\ outcome' = "oserror"
    /\ UNCHANGED <<disk, temp, clock, args, lines, read_time, watcher, counters,
                   read_lines, pre_mtime, ext_since_read, clobbered, ext_lines,
                   tally, between, observer, rewriter, earlier, ui, dispatch>>

\* OSError while writing the temp file, or while renaming it: unlink, return False
WriteFails ==
    /\ pc \in {"write_temp", "writelines", "rename"}
    /\ tmp_exists' = FALSE
    /\ tmp_lines' = <<>>
    /\ tmp_mtime' = 0
    /\ pc' = "done"
    /\ result' = FALSE
    /\ outcome' = "oserror"
    /\ UNCHANGED <<disk, clock, args, lines, read_time, watcher, counters,
                   read_lines, pre_mtime, ext_since_read, clobbered, ext_lines,
                   tally, between, observer, rewriter, earlier, ui, dispatch>>

\* mutant: the handler of update_postings_status lets OSError through
update_postings_status_catches_no_oserror(exc) == exc \in {"IndexError", "ValueError"}

\* line 285: except (IndexError, ValueError, OSError)
update_postings_status_catches(exc) == exc \in {"IndexError", "ValueError", "OSError"}

\* what open() and readlines() raise on a path that exists: PermissionError
\* and IsADirectoryError are OSErrors, UnicodeDecodeError is a ValueError
ReadErrors == {"OSError", "ValueError"}

\* read_lines_safely raises something other than FileNotFoundError
ReadFails(targets, exc) ==
    /\ pc = "idle"
    /\ calls < MaxCalls
    /\ file_exists
    /\ posting_line_numbers' = targets
    /\ operation' = "update_postings_status"
    /\ pre_mtime' = get_modification_time
    /\ n_reads' = n_reads + 1
    /\ pc' = "done"
    /\ result' = FALSE
    /\ outcome' = IF update_postings_status_catches(exc) THEN "error" ELSE "raised"
    /\ UNCHANGED <<disk, temp, clock, transaction_line_number, line_number,
                   expected_current_status, new_status, lines, read_time,
                   watcher, counters, read_lines, ext_since_read, clobbered,
                   ext_lines, marked, n_renames, between, observer, rewriter, earlier, ui, dispatch>>

\* self.file_path.stat() in write_lines_safely raises an OSError other than
\* FileNotFoundError, which its own handler does not catch
StatFails ==
    /\ pc = "stat"
    /\ file_exists
    /\ pc' = "done"
    /\ result' = FALSE
    /\ outcome' = IF update_postings_status_catches("OSError") THEN "error" ELSE "raised"
    /\ UNCHANGED <<disk, temp, clock, args, lines, read_time, watcher, counters,
                   read_lines, pre_mtime, ext_since_read, clobbered, ext_lines,
                   tally, between, observer, rewriter, earlier, ui, dispatch>>

\* the call has returned; the next one starts from nothing
Return ==
    /\ pc = "done"
    /\ calls' = calls + 1
    /\ pc' = "idle"
    /\ posting_line_numbers' = <<>>
    /\ transaction_line_number' = 0
    /\ line_number' = 0
    /\ operation' = "none"
    /\ expected_current_status' = ""
    /\ new_status' = ""
    /\ lines' = <<>>
    /\ read_time' = 0
    /\ result' = FALSE
    /\ read_lines' = <<>>
    /\ pre_mtime' = 0
    /\ outcome' = "none"
    /\ ext_since_read' = FALSE
    /\ clobbered' = FALSE
    /\ marked' = FALSE
    /\ n_reads' = 0
    /\ n_renames' = 0
    /\ read_ext' = FALSE
    /\ prev_lines' = IF ext_count = 0 /\ file_exists THEN file_lines ELSE <<>>
    /\ prev_targets' = IF ext_count = 0 /\ file_exists /\ result
                     THEN posting_line_numbers ELSE <<>>
    /\ prev_read' = IF ext_count = 0 /\ file_exists /\ result THEN read_lines ELSE <<>>
    /\ prev_expected' = IF ext_count = 0 /\ file_exists /\ result
                      THEN expected_current_status ELSE ""
    /\ prev_new' = IF ext_count = 0 /\ file_exists /\ result THEN new_status ELSE ""
    /\ UNCHANGED <<disk, temp, clock, watcher, ext_count, ext_lines,
                   ext_between, observer, rewriter, ui, dispatch>>

\* ------------------------------------------------------------------------
\* LedgerFileWatcher: the observer thread dispatches the oldest event
\* ------------------------------------------------------------------------
\* the events of the k-th external modification that comes as several events
ExtTokens == <<"ext1", "ext2", "ext3", "ext4">>

\* mutant: an event is taken as a modification whatever the mtime
not_modified_never(current_mod_time, last) == FALSE

\* line 70: current_mod_time <= self.last_modification_time
not_modified(current_mod_time, last) == current_mod_time <= last

handle_file_change ==
    /\ events # <<>>
    /\ events' = Tail(events)
    /\ LET current_mod_time == get_modification_time
       IN  IF ignore_next_change
           THEN /\ ignore_next_change' = FALSE
                /\ last_modification_time' = current_mod_time
                /\ UNCHANGED <<on_change_self, unnotified, dispatch>>
           ELSE IF not_modified(current_mod_time, last_modification_time)
           THEN /\ dropped' = IF Head(events) \in Range(ExtTokens)
                              THEN dropped \cup {<<Head(events), current_mod_time>>}
                              ELSE dropped
                /\ UNCHANGED <<watcher, on_change_self, unnotified, fired, twice>>
           ELSE /\ last_modification_time' = current_mod_time
                /\ UNCHANGED ignore_next_change
                \* self.on_change()
                /\ unnotified' = FALSE
                /\ IF Head(events) \in Range(ExtTokens)
                   THEN /\ fired' = fired \cup {<<Head(events), current_mod_time>>}
                        /\ twice' = (twice \/ <<Head(events), current_mod_time>> \in fired)
                        /\ UNCHANGED dropped
                   ELSE UNCHANGED dispatch
                /\ on_change_self' =
                       (on_change_self \/ (Head(events) = "self" /\ self_written))
    /\ UNCHANGED <<disk, temp, clock, pc, args, lines, read_time, result,
                   counters, read_lines, pre_mtime, outcome, ext_since_read,
                   clobbered, ext_lines, tally, between, watching, self_written,
                   rewriter, earlier, ui>>

\* ------------------------------------------------------------------------
\* Environment
\* ------------------------------------------------------------------------
Tick ==
    /\ clock < MaxClock
    /\ clock' = clock + 1
    /\ UNCHANGED <<disk, temp, pc, args, lines, read_time, result, watcher,
                   counters, read_lines, pre_mtime, outcome, ext_since_read,
                   clobbered, ext_lines, tally, between, observer, rewriter, earlier, ui, dispatch>>

\* another process rewrites the ledger file
ExternalWrite(content) ==
    /\ ext_count < MaxExternal
    /\ ext_count' = ext_count + 1
    /\ file_exists' = TRUE
    /\ file_lines' = content
    /\ mtime' = clock
    /\ ext_lines' = content
    /\ ext_since_read' =
           (ext_since_read \/ pc \in {"read", "mark", "stat", "write_temp",
                                      "writelines", "rename"})
    /\ ext_between' = (pc = "done" \/ (pc = "idle" /\ calls >= 1))
    /\ read_ext' = FALSE
    /\ prev_lines' = <<>>
    /\ prev_targets' = <<>>
    /\ prev_read' = <<>>
    /\ prev_expected' = ""
    /\ prev_new' = ""
    /\ events' = IF watching THEN Append(events, "ext") ELSE events
    /\ unnotified' = (unnotified \/ (watching /\ file_exists /\ clock > mtime))
    /\ self_written' = FALSE
    /\ UNCHANGED <<temp, clock, pc, args, lines, read_time, result, watcher,
                   calls, read_lines, pre_mtime, outcome, clobbered, tally,
                   watching, on_change_self, rewriter, ui, dispatch>>

\* another process removes the ledger file
ExternalDelete ==
    /\ ext_count < MaxExternal
    /\ file_exists
    /\ ext_count' = ext_count + 1
    /\ file_exists' = FALSE
    /\ file_lines' = <<>>
    /\ mtime' = 0
    /\ ext_between' = FALSE
    /\ read_ext' = FALSE
    /\ prev_lines' = <<>>
    /\ prev_targets' = <<>>
    /\ prev_read' = <<>>
    /\ prev_expected' = ""
    /\ prev_new' = ""
    /\ self_written' = FALSE
    /\ unnotified' = FALSE
    /\ UNCHANGED <<temp, clock, pc, args, lines, read_time, result, watcher,
                   calls, read_lines, pre_mtime, outcome, ext_since_read,
                   clobbered, ext_lines, tally, watching, events,
                   on_change_self, rewriter, ui, dispatch>>

\* another process rewrites the ledger file, and the observer gets the
\* modification as one or more events (modified, moved, created) of the path
ExternalModification(content) ==
    /\ ext_count < MaxExternal
    /\ ext_count < Len(ExtTokens)
    /\ ext_count' = ext_count + 1
    /\ file_exists' = TRUE
    /\ file_lines' = content
    /\ mtime' = clock
    /\ ext_lines' = content
    /\ ext_since_read' =
           (ext_since_read \/ pc \in {"read", "mark", "stat", "write_temp",
                                      "writelines", "rename"})
    /\ ext_between' = (pc = "done" \/ (pc = "idle" /\ calls >= 1))
    /\ read_ext' = FALSE
    /\ prev_lines' = <<>>
    /\ prev_targets' = <<>>
    /\ prev_read' = <<>>
    /\ prev_expected' = ""
    /\ prev_new' = ""
    /\ \E k \in (IF watching THEN 1..MaxEvents ELSE {0}) :
          events' = events \o [i \in 1..k |-> ExtTokens[ext_count + 1]]
    /\ unnotified' = (unnotified \/ (watching /\ file_exists /\ clock > mtime))
    /\ self_written' = FALSE
    /\ UNCHANGED <<temp, clock, pc, args, lines, read_time, result, watcher,
                   calls, read_lines, pre_mtime, outcome, clobbered, tally,
                   watching, on_change_self, rewriter, ui, dispatch>>

Modification ==
    /\ ext_count < MaxExternal
    /\ \E content \in ExternalFiles : ExternalModification(content)

Empty ==
    /\ pc = "idle"
    /\ \E e \in Status, n \in Status : EmptyBatch(e, n)

Plan ==
    /\ pc = "read"
    /\ \E t \in TargetLists(Len(lines)), e \in Status, n \in Status :
            PlanBatch(t, e, n)

PlanRace ==
    /\ pc = "read"
    /\ \E t \in RaceTargets, e \in Status, n \in Status : PlanBatch(t, e, n)

External ==
    /\ ext_count < MaxExternal
    /\ \E content \in ExternalFiles : ExternalWrite(content)

Next ==
    \/ Empty
    \/ ReadLines
    \/ PlanRace
    \/ mark_internal_change
    \/ CheckMtime
    \/ OpenTemp
    \/ WriteLines
    \/ Rename
    \/ WriteFails
    \/ Return
    \/ Tick
    \/ External
    \/ ExternalDelete

Spec == Init /\ [][Next]_vars

\* the same calls, with the reads and the stat failing as well
ReadError ==
    /\ pc = "idle"
    /\ \E t \in RaceTargets, exc \in ReadErrors : ReadFails(t, exc)

NextFaults ==
    \/ Empty
    \/ ReadLines
    \/ ReadError
    \/ PlanRace
    \/ mark_internal_change
    \/ CheckMtime
    \/ StatFails
    \/ OpenTemp
    \/ WriteLines
    \/ Rename
    \/ WriteFails
    \/ Return
    \/ Tick
    \/ External
    \/ ExternalDelete

SpecFaults == Init /\ [][NextFaults]_vars

\* the planner alone: one call on any file of the pool, nothing else running
NextPlanner ==
    \/ Empty
    \/ ReadLines
    \/ Plan
    \/ mark_internal_change
    \/ CheckMtime
    \/ OpenTemp
    \/ WriteLines
    \/ Rename

SpecPlanner == InitPlanner /\ [][NextPlanner]_vars

\* the planner alone on one transaction whose lines vary in spacing
SpecText == InitText /\ [][NextPlanner]_vars

\* the same with LedgerFileWatcher.start() done: the observer is running and
\* last_modification_time holds the st_mtime start() found
InitWatcher ==
    /\ file_exists = TRUE
    /\ file_lines \in RaceFiles
    /\ mtime = 1
    /\ clock = 1
    /\ InitCommon
    /\ last_modification_time = 1
    /\ watching = TRUE
    /\ NoRewrite

NextWatcher ==
    \/ Empty
    \/ ReadLines
    \/ PlanRace
    \/ mark_internal_change
    \/ CheckMtime
    \/ OpenTemp
    \/ WriteLines
    \/ Rename
    \/ WriteFails
    \/ Return
    \/ Tick
    \/ External
    \/ ExternalDelete
    \/ handle_file_change

SpecWatcher == InitWatcher /\ [][NextWatcher]_vars

\* update_all_postings_in_transaction, lines 113-169, on the buffer
update_all_lines(ls, trans_line_num, new) ==
    LET posting_lines == scan_forward(ls, trans_line_num + 1)
        all_same_status ==
            Cardinality({new : k \in 1..Len(posting_lines)}) = 1
        in_posting_lines(i) == \E k \in 1..Len(posting_lines) : posting_lines[k] = i
    IN  IF all_same_status /\ posting_lines # <<>>
        THEN [i \in 1..Len(ls) |->
                IF i = trans_line_num THEN update_transaction_line(ls[i], new)
                ELSE IF in_posting_lines(i) THEN update_posting_line(ls[i], "")
                ELSE ls[i]]
        ELSE [i \in 1..Len(ls) |->
                IF i = trans_line_num THEN update_transaction_line(ls[i], "")
                ELSE IF in_posting_lines(i) THEN update_posting_line(ls[i], new)
                ELSE ls[i]]

\* read_time = time.time(), then lines 110-169
PlanAll(trans_line_num, new) ==
    /\ pc = "read"
    /\ read_time' = clock
    /\ transaction_line_number' = trans_line_num
    /\ line_number' = 0
    /\ operation' = "update_all_postings_in_transaction"
    /\ new_status' = new
    /\ IF trans_line_num < 1 \/ trans_line_num > Len(lines)
       THEN /\ pc' = "done"
            /\ result' = FALSE
            /\ outcome' = "precondition"
            /\ UNCHANGED lines
       ELSE /\ lines' = update_all_lines(lines, trans_line_num, new)
            /\ pc' = "mark"
            /\ UNCHANGED <<result, outcome>>
    /\ UNCHANGED <<disk, temp, clock, posting_line_numbers,
                   expected_current_status, watcher, counters, read_lines,
                   pre_mtime, ext_since_read, clobbered, ext_lines, tally,
                   between, observer, rewriter, earlier, ui, dispatch>>

All ==
    /\ pc = "read"
    /\ \E h \in 0..(Len(lines) + 1), n \in Status : PlanAll(h, n)

InitAll ==
    /\ file_exists = TRUE
    /\ file_lines \in PlannerFiles
    /\ mtime = 1
    /\ clock = 2
    /\ InitCommon
    /\ last_modification_time = 0
    /\ watching = FALSE
    /\ NoRewrite

NextAll ==
    \/ ReadLines
    \/ All
    \/ mark_internal_change
    \/ CheckMtime
    \/ OpenTemp
    \/ WriteLines
    \/ Rename

SpecAll == InitAll /\ [][NextAll]_vars

\* lines[line_number - 1]: Python takes index -1 as the last line
python_index(ls, n) == IF n >= 1 THEN n ELSE Len(ls) + n

\* mutant: the range check lets line number 0 through
line_number_out_of_range_below_zero(ls, n) == n < 0 \/ n > Len(ls)

\* lines 38 and 71: line_number < 1 or line_number > len(lines)
line_number_out_of_range(ls, n) == n < 1 \/ n > Len(ls)

\* mutant: the rewritten line is written whether or not it differs
line_changed_always(old_line, new_line) == TRUE

\* lines 46 and 79: new_line != old_line
line_changed(old_line, new_line) == new_line # old_line

\* update_transaction_status, lines 37-55, up to the hook
PlanTransactionStatus(n, new) ==
    /\ pc = "read"
    /\ read_time' = clock
    /\ operation' = "update_transaction_status"
    /\ line_number' = n
    /\ new_status' = new
    /\ IF line_number_out_of_range(lines, n)
       THEN /\ pc' = "done"
            /\ result' = FALSE
            /\ outcome' = "precondition"
            /\ UNCHANGED lines
       ELSE LET line_idx == python_index(lines, n)
                old_line == lines[line_idx]
                new_line == update_transaction_line(old_line, new)
            IN  IF line_changed(old_line, new_line)
                THEN /\ lines' = [lines EXCEPT ![line_idx] = new_line]
                     /\ pc' = "mark"
                     /\ UNCHANGED <<result, outcome>>
                ELSE /\ pc' = "done"
                     /\ result' = FALSE
                     /\ outcome' = "unchanged"
                     /\ UNCHANGED lines
    /\ UNCHANGED <<disk, temp, clock, posting_line_numbers,
                   expected_current_status, transaction_line_number, watcher,
                   counters, read_lines, pre_mtime, ext_since_read, clobbered,
                   ext_lines, tally, between, observer, rewriter, earlier, ui, dispatch>>

\* update_posting_status, lines 70-88, up to the hook
PlanPostingStatus(n, new) ==
    /\ pc = "read"
    /\ read_time' = clock
    /\ operation' = "update_posting_status"
    /\ line_number' = n
    /\ new_status' = new
    /\ IF line_number_out_of_range(lines, n)
       THEN /\ pc' = "done"
            /\ result' = FALSE
            /\ outcome' = "precondition"
            /\ UNCHANGED lines
       ELSE LET line_idx == python_index(lines, n)
                old_line == lines[line_idx]
                new_line == update_posting_line(old_line, new)
            IN  IF line_changed(old_line, new_line)
                THEN /\ lines' = [lines EXCEPT ![line_idx] = new_line]
                     /\ pc' = "mark"
                     /\ UNCHANGED <<result, outcome>>
                ELSE /\ pc' = "done"
                     /\ result' = FALSE
                     /\ outcome' = "unchanged"
                     /\ UNCHANGED lines
    /\ UNCHANGED <<disk, temp, clock, posting_line_numbers,
                   expected_current_status, transaction_line_number, watcher,
                   counters, read_lines, pre_mtime, ext_since_read, clobbered,
                   ext_lines, tally, between, observer, rewriter, earlier, ui, dispatch>>

TransactionStatus ==
    /\ pc = "read"
    /\ \E n \in 0..(Len(lines) + 1), s \in Status : PlanTransactionStatus(n, s)

PostingStatus ==
    /\ pc = "read"
    /\ \E n \in 0..(Len(lines) + 1), s \in Status : PlanPostingStatus(n, s)

InitSingle ==
    /\ file_exists = TRUE
    /\ file_lines \in PlannerFiles
    /\ mtime = 1
    /\ clock = 2
    /\ InitCommon
    /\ last_modification_time = 0
    /\ watching = FALSE
    /\ NoRewrite

NextSingle ==
    \/ ReadLines
    \/ TransactionStatus
    \/ PostingStatus
    \/ mark_internal_change
    \/ CheckMtime
    \/ OpenTemp
    \/ WriteLines
    \/ Rename

SpecSingle == InitSingle /\ [][NextSingle]_vars

\* the caller undoes the call that has just returned True: the same targets,
\* the two statuses exchanged
PlanReverse ==
    /\ pc = "read"
    /\ calls = 1
    /\ prev_targets # <<>>
    /\ PlanBatch(prev_targets, prev_new, prev_expected)

PlanFirst ==
    /\ pc = "read"
    /\ calls = 0
    /\ \E t \in TargetLists(Len(lines)), e \in Status, n \in Status :
            PlanBatch(t, e, n)

InitRound ==
    /\ file_exists = TRUE
    /\ file_lines \in PlannerFiles
    /\ mtime = 1
    /\ clock = 2
    /\ InitCommon
    /\ last_modification_time = 0
    /\ watching = FALSE
    /\ NoRewrite

NextRound ==
    \/ ReadLines
    \/ PlanFirst
    \/ PlanReverse
    \/ mark_internal_change
    \/ CheckMtime
    \/ OpenTemp
    \/ WriteLines
    \/ Rename
    \/ Return

SpecRound == InitRound /\ [][NextRound]_vars

\* ------------------------------------------------------------------------
\* ReconcileApp.action_toggle_status: the status the transaction list holds
\* for the selected posting is what the call expects
\* ------------------------------------------------------------------------
\* new_status = "!" if current_posting_status == "" else ""
toggle_new_status(current_posting_status) ==
    IF current_posting_status = "" THEN "!" ELSE ""

\* update_postings_status([posting_line_number], current_posting_status, new_status)
Toggle ==
    /\ pc = "read"
    /\ \E posting_line_number \in 1..(Len(lines) + 1), current_posting_status \in Status :
            PlanBatch(<<posting_line_number>>, current_posting_status,
                      toggle_new_status(current_posting_status))

\* self.notify(...) on the result of the call
Notify ==
    /\ pc = "done"
    /\ pc' = "notified"
    /\ notification' = IF result THEN "updated" ELSE "failed"
    /\ UNCHANGED <<disk, temp, clock, args, lines, read_time, result, watcher,
                   counters, read_lines, pre_mtime, outcome, ext_since_read,
                   clobbered, ext_lines, tally, between, observer, rewriter,
                   earlier, dispatch>>

InitToggle ==
    /\ file_exists = TRUE
    /\ file_lines \in ScanFiles
    /\ mtime = 1
    /\ clock = 2
    /\ InitCommon
    /\ last_modification_time = 0
    /\ watching = FALSE
    /\ NoRewrite

NextToggle ==
    \/ ReadLines
    \/ Toggle
    \/ mark_internal_change
    \/ CheckMtime
    \/ OpenTemp
    \/ WriteLines
    \/ Rename
    \/ Notify

SpecToggle == InitToggle /\ [][NextToggle]_vars

\* the observer, the toggles of the UI and external modifications that come
\* as several events
NextEvents ==
    \/ ReadLines
    \/ Toggle
    \/ mark_internal_change
    \/ CheckMtime
    \/ OpenTemp
    \/ WriteLines
    \/ Rename
    \/ Return
    \/ Tick
    \/ Modification
    \/ handle_file_change

SpecEvents == InitWatcher /\ [][NextEvents]_vars

\* one call with a single target on files that try the scans and the classifier
InitScan ==
    /\ file_exists = TRUE
    /\ file_lines \in ScanFiles
    /\ mtime = 1
    /\ clock = 2
    /\ InitCommon
    /\ last_modification_time = 0
    /\ watching = FALSE
    /\ NoRewrite

PlanOne ==
    /\ pc = "read"
    /\ \E t \in 0..(Len(lines) + 1), e \in Status, n \in Status :
            PlanBatch(<<t>>, e, n)

NextScan ==
    \/ ReadLines
    \/ PlanOne
    \/ mark_internal_change
    \/ CheckMtime
    \/ OpenTemp
    \/ WriteLines
    \/ Rename

SpecScan == InitScan /\ [][NextScan]_vars

\* calls made one after the other by the one process that touches the file
InitSeq ==
    /\ file_exists = TRUE
    /\ file_lines \in SeqFiles
    /\ mtime = 1
    /\ clock = 1
    /\ InitCommon
    /\ last_modification_time = 0
    /\ watching = FALSE
    /\ NoRewrite

NextSeq ==
    \/ ReadLines
    \/ PlanOne
    \/ mark_internal_change
    \/ CheckMtime
    \/ OpenTemp
    \/ WriteLines
    \/ Rename
    \/ Return
    \/ Tick

SpecSeq == InitSeq /\ [][NextSeq]_vars

\* ------------------------------------------------------------------------
\* The line rewrites on their own: one line, rewritten once, then again
\* ------------------------------------------------------------------------
InitRewrite ==
    /\ file_exists = FALSE
    /\ file_lines = <<>>
    /\ mtime = 0
    /\ clock = 1
    /\ InitCommon
    /\ last_modification_time = 0
    /\ watching = FALSE
    /\ arg_line \in RewriteInputs
    /\ arg_status = ""
    /\ out_line = <<>>
    /\ out_again = <<>>
    /\ step = "line"

\* _update_posting_line(arg_line, s)
RewritePosting(s) ==
    /\ step = "line"
    /\ arg_status' = s
    /\ out_line' = update_posting_line(arg_line, s)
    /\ step' = "posting"
    /\ UNCHANGED <<disk, temp, clock, pc, args, lines, read_time, result,
                   watcher, counters, read_lines, pre_mtime, outcome,
                   ext_since_read, clobbered, ext_lines, tally, between,
                   observer, earlier, arg_line, out_again,
                   ui, dispatch>>

\* _update_posting_line of the result, with the same status
RewritePostingAgain ==
    /\ step = "posting"
    /\ out_again' = update_posting_line(out_line, arg_status)
    /\ step' = "posting_twice"
    /\ UNCHANGED <<disk, temp, clock, pc, args, lines, read_time, result,
                   watcher, counters, read_lines, pre_mtime, outcome,
                   ext_since_read, clobbered, ext_lines, tally, between,
                   observer, earlier, arg_line, arg_status, out_line,
                   ui, dispatch>>

\* _update_posting_line of the result, back to unset
RewritePostingBack ==
    /\ step = "posting"
    /\ out_again' = update_posting_line(out_line, "")
    /\ step' = "posting_back"
    /\ UNCHANGED <<disk, temp, clock, pc, args, lines, read_time, result,
                   watcher, counters, read_lines, pre_mtime, outcome,
                   ext_since_read, clobbered, ext_lines, tally, between,
                   observer, earlier, arg_line, arg_status, out_line,
                   ui, dispatch>>

\* _update_transaction_line(arg_line, s)
RewriteHeader(s) ==
    /\ step = "line"
    /\ arg_status' = s
    /\ out_line' = update_transaction_line(arg_line, s)
    /\ step' = "header"
    /\ UNCHANGED <<disk, temp, clock, pc, args, lines, read_time, result,
                   watcher, counters, read_lines, pre_mtime, outcome,
                   ext_since_read, clobbered, ext_lines, tally, between,
                   observer, earlier, arg_line, out_again,
                   ui, dispatch>>

Posting ==
    /\ step = "line"
    /\ \E s \in Status : RewritePosting(s)

Header ==
    /\ step = "line"
    /\ \E s \in Status : RewriteHeader(s)

NextRewrite ==
    \/ Posting
    \/ RewritePostingAgain
    \/ RewritePostingBack
    \/ Header

SpecRewrite == InitRewrite /\ [][NextRewrite]_vars

\* ------------------------------------------------------------------------
\* Vocabulary of the properties
\* ------------------------------------------------------------------------
Returned == pc = "done"
Succeeded == pc = "done" /\ result = TRUE /\ posting_line_numbers # <<>>
Targets == Range(posting_line_numbers)

\* a target that does not meet the precondition of the batch on its own
TargetFails(ls, t, expected) ==
    \/ t < 1
    \/ t > Len(ls)
    \/ /\ t \in 1..Len(ls)
       /\ \/ ~is_valid_posting_line(ls[t])
          \/ find_transaction_for_posting(ls, t) = 0
          \/ /\ find_transaction_for_posting(ls, t) # 0
             /\ get_effective_posting_status(
                    ls, t, find_transaction_for_posting(ls, t)) # expected

\* ------------------------------------------------------------------------
\* C1  All-or-nothing batch.  When a call with a non-empty target list has
\* returned and at least one of its targets is out of range, is not a valid
\* posting line, has no owning transaction or has an effective status other
\* than expected_current_status, the call returned False, nothing was written
\* (no temp file, the ledger content is what was read, its mtime is the one
\* the call found) whatever the other targets are.
\* ------------------------------------------------------------------------
C1_AllOrNothing ==
    (/\ Returned
     /\ posting_line_numbers # <<>>
     /\ \E t \in Targets : TargetFails(read_lines, t, expected_current_status))
    => /\ result = FALSE
       /\ outcome = "precondition"
       /\ ~tmp_exists
       /\ file_lines = read_lines
       /\ mtime = pre_mtime

\* a rejected batch of two targets whose first target passes on its own
C1_Witness ==
    /\ Returned
    /\ result = FALSE
    /\ Len(posting_line_numbers) = 2
    /\ ~TargetFails(read_lines, posting_line_numbers[1], expected_current_status)
    /\ TargetFails(read_lines, posting_line_numbers[2], expected_current_status)
    /\ new_status # expected_current_status
    /\ file_lines = read_lines

\* ------------------------------------------------------------------------
\* C2  External edits are never silently clobbered: a rename of the core
\* never replaces content an external writer wrote after the core read the
\* lines.
\* ------------------------------------------------------------------------
C2_NeverClobbered == Returned /\ result = TRUE => ~clobbered

\* ------------------------------------------------------------------------
\* C3  Race rejection.  The step that stats the file refuses the write
\* (returns False, disk untouched) exactly when the file exists and its mtime
\* is strictly greater than read_time; and when it refuses, the ledger holds
\* what the external writer wrote after the core's read.
\* ------------------------------------------------------------------------
C3_RaceRejection ==
    [][(pc = "stat" /\ pc' # "stat")
        => /\ (/\ pc' = "done"
               /\ result' = FALSE
               /\ outcome' = "refused"
               /\ disk' = disk
               /\ temp' = temp) <=> (file_exists /\ mtime > read_time)
           /\ outcome' = "refused"
                => (ext_since_read /\ file_lines' = ext_lines)]_vars

\* a refused write: the ledger holds the external version, not the pending one
C3_Witness ==
    /\ Returned
    /\ outcome = "refused"
    /\ result = FALSE
    /\ file_lines = ext_lines
    /\ file_lines # lines
    /\ lines # read_lines

\* ------------------------------------------------------------------------
\* Vocabulary of the planner's properties.  A transaction's postings are the
\* lines its forward scan reaches that are posting lines (a comment is not).
\* ------------------------------------------------------------------------
owner(t) == find_transaction_for_posting(read_lines, t)
Affected == {owner(t) : t \in Targets}

postings_of(ls, h) ==
    {p \in Range(find_all_postings_for_transaction(ls, h)) :
        is_valid_posting_line(ls[p])}

\* the status the update is meant to leave posting p of transaction h with
final_status(p, h) ==
    IF p \in Targets THEN new_status
    ELSE get_effective_posting_status(read_lines, p, h)

final_set(h) == {final_status(p, h) : p \in postings_of(read_lines, h)}

\* ------------------------------------------------------------------------
\* C4  Target postcondition: after a call that returned True, every targeted
\* posting has effective status new_status in the written file.
\* ------------------------------------------------------------------------
C4_TargetPostcondition ==
    Succeeded =>
        \A t \in Targets :
            get_effective_posting_status(file_lines, t, owner(t)) = new_status

\* ------------------------------------------------------------------------
\* C5  Non-target preservation: after a call that returned True, every
\* posting line outside the target list (in any transaction) has the
\* effective status it had in the file that was read.
\* ------------------------------------------------------------------------
C5_NonTargetPreserved ==
    Succeeded =>
        \A p \in 1..Len(read_lines) :
            (/\ p \notin Targets
             /\ is_valid_posting_line(read_lines[p])
             /\ owner(p) # 0)
            => get_effective_posting_status(file_lines, p, owner(p))
                 = get_effective_posting_status(read_lines, p, owner(p))

C7_Collapse ==
    Succeeded =>
        \A h \in Affected :
            Cardinality(final_set(h)) = 1
            => /\ header_status(file_lines[h]) \in final_set(h)
               /\ \A p \in postings_of(read_lines, h) :
                      extract_posting_status(file_lines[p]) = ""

AffectedLines ==
    IF Succeeded
    THEN Affected \cup Targets \cup UNION {postings_of(read_lines, h) : h \in Affected}
    ELSE {}

C9_Frame ==
    (Returned /\ posting_line_numbers # <<>>) =>
        /\ Len(file_lines) = Len(read_lines)
        /\ \A i \in 1..Len(read_lines) :
              i \notin AffectedLines => file_lines[i] = read_lines[i]

\* ------------------------------------------------------------------------
\* C10  Minimal change on rewritten lines: every line of the written file
\* differs from the line read only in the status marker and the single space
\* next to it, and a line whose marker did not change is identical.
\* ------------------------------------------------------------------------
MarkerTexts == {<<>>, <<"!", " ">>, <<"*", " ">>}

MarkerOnlyChange(old, new) ==
    \E k \in 0..Len(old), m1 \in MarkerTexts, m2 \in MarkerTexts :
        /\ k + Len(m1) <= Len(old)
        /\ SubSeq(old, k + 1, k + Len(m1)) = m1
        /\ new = SubSeq(old, 1, k) \o m2 \o SubSeq(old, k + Len(m1) + 1, Len(old))

line_status(line) ==
    IF date_match(strip(line)) THEN header_status(line)
    ELSE extract_posting_status(line)

C10_MinimalChange ==
    Succeeded =>
        /\ Len(file_lines) = Len(read_lines)
        /\ \A i \in 1..Len(read_lines) :
              /\ MarkerOnlyChange(read_lines[i], file_lines[i])
              /\ line_status(file_lines[i]) = line_status(read_lines[i])
                    => file_lines[i] = read_lines[i]

\* ------------------------------------------------------------------------
\* C11  Comments are never treated as postings.  For every line of the file
\* read whose first non-blank character is ';': a call that targets it does
\* not succeed; the line is identical in the file afterwards (no marker is
\* inserted into it); and it has no say in the choice between the header and
\* the per-posting representation: a transaction whose postings all end up
\* with one status carries that status on its header, whatever comments lie
\* between its lines.
\* ------------------------------------------------------------------------
is_comment(line) == lstrip(line) # <<>> /\ lstrip(line)[1] = ";"

\* transactions both scans agree on and that hold a comment
HoldsComment(h) ==
    /\ \A t \in Targets :
          owner(t) = h => t \in Range(find_all_postings_for_transaction(read_lines, h))
    /\ \E p \in Range(find_all_postings_for_transaction(read_lines, h)) :
          is_comment(read_lines[p])

C11_CommentsNotPostings ==
    (Returned /\ posting_line_numbers # <<>>) =>
        /\ \A i \in 1..Len(read_lines) :
              is_comment(read_lines[i])
              => /\ result = TRUE => i \notin Targets
                 /\ Len(file_lines) = Len(read_lines)
                 /\ file_lines[i] = read_lines[i]
        /\ result = TRUE =>
              \A h \in Affected :
                  (HoldsComment(h) /\ Cardinality(final_set(h)) = 1)
                  => header_status(file_lines[h]) \in final_set(h)

\* ------------------------------------------------------------------------
\* C12  Atomic visibility of a write.  No step of the core changes what is
\* at the ledger path except the rename, and the rename puts the complete
\* new content there in one step: writing the temp file, line after line,
\* leaves the ledger path alone.
\* ------------------------------------------------------------------------
C12_AtomicVisibility ==
    [][(ext_count' = ext_count /\ disk' # disk)
        => /\ pc = "rename"
           /\ pc' = "done"
           /\ tmp_lines = lines
           /\ file_exists'
           /\ file_lines' = lines]_vars

\* the temp file is partly written and the ledger still holds what was read
C12_Witness ==
    /\ pc = "writelines"
    /\ Len(tmp_lines) > 0
    /\ Len(tmp_lines) < Len(lines)
    /\ lines # read_lines
    /\ file_exists
    /\ file_lines = read_lines

\* ------------------------------------------------------------------------
\* C13  Self-write notification ordering: the editor invokes the watcher's
\* mark_internal_change hook only once its write has succeeded, never before
\* the write is attempted and never in a call whose write is refused or
\* fails.
\* ------------------------------------------------------------------------
C13_HookAfterWrite == marked => outcome = "written"

\* ------------------------------------------------------------------------
\* C14  Foreign edits are always notified.  Once every file event has been
\* dispatched, on_change has run since the last external write that advanced
\* the file's mtime, whatever the core did before, refused writes included:
\* no event of an external write is swallowed by ignore_next_change.
\* ------------------------------------------------------------------------
C14_ForeignNotified == events = <<>> => ~unnotified

\* ------------------------------------------------------------------------
\* C15  No reload loop.  on_change never runs on an event that a write of
\* the core produced while the ledger holds that write, however many events
\* the rename produces.
\* ------------------------------------------------------------------------
C15_NoReloadLoop == ~on_change_self

\* ------------------------------------------------------------------------
\* C16  Sequential calls with an external edit in between.  As stated: when
\* an external process has rewritten the file after a call returned and
\* before the next call's read (and nothing external happens during that
\* call), the next call returns False and the file equals the external
\* version.
\* ------------------------------------------------------------------------
C16_SecondCallRefused ==
    (Returned /\ posting_line_numbers # <<>> /\ read_ext)
    => (result = FALSE /\ file_lines = ext_lines)

\* C16 as amended: such a call is not refused by the mtime check, since its
\* read_time is taken after the external write; it works on the external
\* version.  It returns False, the file still equal to the external version,
\* exactly when one of its targets fails the precondition on that version or
\* the write fails with an OSError; otherwise it returns True and the file
\* holds its rewrite of the external version.
C16_SecondCallReadsExternal ==
    (Returned /\ posting_line_numbers # <<>> /\ read_ext)
    => /\ read_lines = ext_lines
       /\ outcome # "refused"
       /\ result = FALSE
            => /\ file_lines = ext_lines
               /\ \/ outcome = "oserror"
                  \/ \E t \in Targets :
                        TargetFails(ext_lines, t, expected_current_status)
       /\ result = TRUE
            => /\ \A t \in Targets :
                     ~TargetFails(ext_lines, t, expected_current_status)
               /\ file_lines = rewrite_lines(ext_lines, posting_line_numbers, new_status)

\* a second call that returned True and replaced the external version
C16_Witness ==
    /\ Returned
    /\ read_ext
    /\ calls >= 1
    /\ result = TRUE
    /\ posting_line_numbers # <<>>
    /\ file_lines # ext_lines

C18_Idempotent ==
    (step = "posting_twice" /\ is_valid_posting_line(arg_line))
    => out_again = out_line

\* ------------------------------------------------------------------------
\* C19  Round trip of the posting rewrite: for a posting line with no
\* explicit marker, rewriting to '!' or '*' inserts the marker and one space
\* directly after the leading whitespace and changes nothing else, rewriting
\* the result back to unset returns the original line exactly, and rewriting
\* the line to unset returns it unchanged.
\* ------------------------------------------------------------------------
RECURSIVE Indent(_)
Indent(l) ==
    IF l # <<>> /\ Head(l) \in {" ", "\t"} THEN <<Head(l)>> \o Indent(Tail(l))
    ELSE <<>>

C19_RoundTrip ==
    (/\ step \in {"posting", "posting_twice", "posting_back"}
     /\ is_valid_posting_line(arg_line)
     /\ extract_posting_status(arg_line) = "")
    => /\ arg_status = "" => out_line = arg_line
       /\ arg_status # ""
            => out_line = Indent(arg_line) \o <<arg_status, " ">>
                            \o SubSeq(arg_line, Len(Indent(arg_line)) + 1, Len(arg_line))
       /\ step = "posting_back" => out_again = arg_line

\* a tab-indented line with a space before its terminator, marked and unmarked again
C19_Witness ==
    /\ step = "posting_back"
    /\ arg_line = <<"\t", "A", " ", "\n">>
    /\ arg_status = "*"
    /\ out_line = <<"\t", "*", " ", "A", " ", "\n">>
    /\ out_again = arg_line

\* ------------------------------------------------------------------------
\* C20  Header rewrite: a line that does not match the header pattern comes
\* back unchanged; a header comes back with its leading whitespace and its
\* terminator as they were, and with new_status as the marker a parse of it
\* finds.
\* ------------------------------------------------------------------------
Terminator(l) == IF l # <<>> /\ l[Len(l)] = "\n" THEN <<"\n">> ELSE <<>>

C20_HeaderRewrite ==
    step = "header" =>
        IF date_match(strip(arg_line))
        THEN /\ header_status(out_line) = arg_status
             /\ Indent(out_line) = Indent(arg_line)
             /\ Terminator(out_line) = Terminator(arg_line)
             /\ date_match(strip(out_line))
        ELSE out_line = arg_line

\* ------------------------------------------------------------------------
\* The resolver and the classifier, stated on the characters of the lines
\* ------------------------------------------------------------------------
\* the position of the first character of a line that is not whitespace, 0
\* when the line has none
FirstInk(l) ==
    IF \A i \in 1..Len(l) : l[i] \in Whitespace THEN 0
    ELSE CHOOSE i \in 1..Len(l) :
            l[i] \notin Whitespace /\ \A j \in 1..(i - 1) : l[j] \in Whitespace

IsBlank(l) == FirstInk(l) = 0

\* the text of the line starts with a date
IsDated(l) ==
    LET k == FirstInk(l)
    IN  /\ k # 0
        /\ Len(l) >= k + 9
        /\ \A d \in {0, 1, 2, 3, 5, 6, 8, 9} : l[k + d] \in Digits
        /\ l[k + 4] \in {"-", "/"}
        /\ l[k + 7] \in {"-", "/"}

MarkerOf(l) ==
    IF ~IsBlank(l) /\ l[FirstInk(l)] \in Markers THEN l[FirstInk(l)] ELSE ""

HeaderMarkerOf(l) ==
    LET k == FirstInk(l)
        Ink == {i \in (k + 10)..Len(l) : l[i] \notin Whitespace}
        m == CHOOSE i \in Ink : \A j \in Ink : i <= j
    IN  IF ~IsDated(l) \/ Ink = {} THEN ""
        ELSE IF l[m] \in Markers THEN l[m] ELSE ""

\* the nearest line above p that is blank or dated, when it is dated; 0 otherwise
HeaderAbove(ls, p) ==
    LET B == {j \in 1..(p - 1) : IsBlank(ls[j]) \/ IsDated(ls[j])}
        b == CHOOSE j \in B : \A k \in B : k <= j
    IN  IF B = {} THEN 0 ELSE IF IsDated(ls[b]) THEN b ELSE 0

\* the lines below h up to the first line that is blank, dated or not indented
PostingsBelow(ls, h) ==
    LET S == {j \in (h + 1)..Len(ls) :
                \/ IsBlank(ls[j])
                \/ IsDated(ls[j])
                \/ ls[j][1] \notin {" ", "\t"}}
        stop == IF S = {} THEN Len(ls) + 1 ELSE CHOOSE j \in S : \A k \in S : j <= k
    IN  [i \in 1..(stop - h - 1) |-> h + i]

EffectiveOf(ls, p, h) ==
    IF MarkerOf(ls[p]) # "" THEN MarkerOf(ls[p]) ELSE HeaderMarkerOf(ls[h])

ValidTarget(ls, t) ==
    /\ t \in 1..Len(ls)
    /\ ~IsBlank(ls[t])
    /\ ls[t][FirstInk(ls[t])] # ";"
    /\ ~IsDated(ls[t])
    /\ ls[t][1] \in {" ", "\t"}

Untouched ==
    /\ ~tmp_exists
    /\ file_lines = read_lines
    /\ mtime = pre_mtime

\* ------------------------------------------------------------------------
\* C21  Backward boundary search: for every line p of the file the call read,
\* _find_transaction_for_posting gives the number of the nearest line above p
\* that matches the date pattern, unless a blank line lies between that line
\* and p or no line above p matches, and then it gives None (0); a call one of
\* whose in-range targets resolves to None returns False with the file
\* unchanged.
\* ------------------------------------------------------------------------
C21_BackwardSearch ==
    /\ \A p \in 1..Len(read_lines) :
            find_transaction_for_posting(read_lines, p) = HeaderAbove(read_lines, p)
    /\ (/\ Returned
        /\ posting_line_numbers # <<>>
        /\ \E t \in Targets : t \in 1..Len(read_lines) /\ HeaderAbove(read_lines, t) = 0)
       => result = FALSE /\ Untouched

\* a posting whose status is the expected one, cut off from the header above
\* it by a blank line
C21_Witness ==
    /\ Returned
    /\ result = FALSE
    /\ \E t \in Targets :
        /\ ValidTarget(read_lines, t)
        /\ MarkerOf(read_lines[t]) = expected_current_status
        /\ find_transaction_for_posting(read_lines, t) = 0
        /\ \E j \in 1..(t - 1) : IsDated(read_lines[j])
        /\ \E j \in 1..(t - 1) : IsBlank(read_lines[j])
    /\ Untouched

\* ------------------------------------------------------------------------
\* C22  Forward posting enumeration: for every line h of the file the call
\* read, _find_all_postings_for_transaction gives, in ascending order, the
\* numbers of the lines after h up to (not including) the first line that is
\* blank, matches the date pattern or is not indented, or up to the end of
\* the file.
\* ------------------------------------------------------------------------
C22_ForwardEnumeration ==
    \A h \in 1..Len(read_lines) :
        find_all_postings_for_transaction(read_lines, h) = PostingsBelow(read_lines, h)

\* a successful call on a transaction whose enumeration stopped at a
\* non-indented line that has an indented line after it
C22_Witness ==
    /\ Succeeded
    /\ \E h \in Affected :
        LET n == Len(find_all_postings_for_transaction(read_lines, h))
        IN  /\ n >= 1
            /\ h + n + 2 <= Len(read_lines)
            /\ ~IsBlank(read_lines[h + n + 1])
            /\ ~IsDated(read_lines[h + n + 1])
            /\ read_lines[h + n + 1][1] \notin {" ", "\t"}
            /\ ValidTarget(read_lines, h + n + 2)

\* ------------------------------------------------------------------------
\* C23  Effective status: for a posting line p and a header line h of the
\* file the call read, _get_effective_posting_status gives the marker of p
\* when p has one, else the marker of h when h has one, else unset; and a
\* call on one valid target that has a header passes exactly when
\* expected_current_status is that status.
\* ------------------------------------------------------------------------
C23_EffectiveStatus ==
    /\ \A p \in 1..Len(read_lines), h \in 1..Len(read_lines) :
            get_effective_posting_status(read_lines, p, h) = EffectiveOf(read_lines, p, h)
    /\ (/\ Returned
        /\ Len(posting_line_numbers) = 1
        /\ ValidTarget(read_lines, posting_line_numbers[1])
        /\ HeaderAbove(read_lines, posting_line_numbers[1]) # 0)
       => (result = TRUE <=>
            expected_current_status =
                EffectiveOf(read_lines, posting_line_numbers[1],
                            HeaderAbove(read_lines, posting_line_numbers[1])))

\* a pending posting under a cleared header, accepted as pending
C23_Witness ==
    /\ Succeeded
    /\ expected_current_status = "!"
    /\ \E t \in Targets :
        /\ MarkerOf(read_lines[t]) = "!"
        /\ owner(t) # 0
        /\ HeaderMarkerOf(read_lines[owner(t)]) = "*"

\* ------------------------------------------------------------------------
\* C24  Target validity: _is_valid_posting_line accepts a line exactly when
\* it is not blank, its text does not start with ';' nor with a date, and it
\* starts with a space or a tab; a call succeeds only if every target is in
\* range and such a line, and a call with a target that is not returns False
\* with the file unchanged.
\* ------------------------------------------------------------------------
C24_TargetValidity ==
    /\ \A t \in 1..Len(read_lines) :
            is_valid_posting_line(read_lines[t]) <=> ValidTarget(read_lines, t)
    /\ (Returned /\ posting_line_numbers # <<>>)
       => /\ result = TRUE => \A t \in Targets : ValidTarget(read_lines, t)
          /\ (\E t \in Targets : ~ValidTarget(read_lines, t))
                => result = FALSE /\ Untouched

\* an indented comment under a header, refused although the status expected
\* is the one the header gives it
C24_Witness ==
    /\ Returned
    /\ result = FALSE
    /\ Untouched
    /\ \E t \in Targets :
        /\ t \in 1..Len(read_lines)
        /\ read_lines[t] = IndentedComment
        /\ HeaderAbove(read_lines, t) # 0
        /\ EffectiveOf(read_lines, t, HeaderAbove(read_lines, t)) = expected_current_status

\* ------------------------------------------------------------------------
\* C25  Empty batch is a no-op: the step by which a call with an empty
\* target list ends returns True, has read nothing, leaves the ledger file
\* (existence, content, mtime) and the temp file as they were and leaves the
\* watcher's ignore flag and last modification time alone, whatever the two
\* statuses are and whether or not the file exists.
\* ------------------------------------------------------------------------
C25_EmptyBatchNoOp ==
    [][(outcome' = "empty" /\ outcome # "empty")
        => /\ pc' = "done"
           /\ result' = TRUE
           /\ n_reads' = 0
           /\ n_renames' = 0
           /\ ~marked'
           /\ disk' = disk
           /\ temp' = temp
           /\ watcher' = watcher]_vars

\* an empty batch on a ledger path that has no file, with two different statuses
C25_Witness ==
    /\ Returned
    /\ outcome = "empty"
    /\ posting_line_numbers = <<>>
    /\ result = TRUE
    /\ ~file_exists
    /\ expected_current_status = "!"
    /\ new_status = "*"
    /\ n_reads = 0

\* ------------------------------------------------------------------------
\* C26  I/O failure during write: a call whose temp-file write or rename
\* failed returned False, its temp file is gone, it renamed nothing, and as
\* long as no other process touched the ledger the file holds the content and
\* the mtime the call read.
\* ------------------------------------------------------------------------
C26_WriteFailure ==
    (Returned /\ outcome = "oserror")
    => /\ result = FALSE
       /\ ~tmp_exists
       /\ n_renames = 0
       /\ ext_count = 0 => /\ file_exists
                           /\ file_lines = read_lines
                           /\ mtime = pre_mtime

\* a failed write of a buffer that differs from the file, the file as it was read
C26_Witness ==
    /\ Returned
    /\ outcome = "oserror"
    /\ result = FALSE
    /\ ~tmp_exists
    /\ lines # read_lines
    /\ file_lines = read_lines
    /\ ext_count = 0

\* ------------------------------------------------------------------------
\* C27  Missing file: the read of a path that has no file gives no lines; the
\* call that made it takes the current time as read_time, returns False and
\* creates nothing; the fencing check of a path that has no file lets the
\* write go on, and the rename then creates the file with the buffer.
\* ------------------------------------------------------------------------
C27_MissingFile ==
    [][/\ (pc = "idle" /\ pc' = "read" /\ ~file_exists) => lines' = <<>>
       /\ (pc = "read" /\ pc' # "read" /\ read_lines = <<>>)
            => /\ read_time' = clock
               /\ pc' = "done"
               /\ result' = FALSE
               /\ disk' = disk
               /\ ~tmp_exists'
       /\ (pc = "stat" /\ pc' # "stat" /\ ~file_exists) => pc' = "write_temp"
       /\ (pc = "rename" /\ outcome' = "written" /\ ~file_exists)
            => file_exists' /\ file_lines' = lines]_vars

\* a call with targets on a path that has no file: False, and still no file
C27_Witness ==
    /\ Returned
    /\ posting_line_numbers # <<>>
    /\ n_reads = 1
    /\ read_lines = <<>>
    /\ pre_mtime = 0
    /\ result = FALSE
    /\ ~file_exists
    /\ ~tmp_exists

\* ------------------------------------------------------------------------
\* C28  Errors are values: no call ends with an exception leaving
\* update_postings_status; a call that ended on a precondition mismatch or an
\* unresolvable structure, on a refused write, or on an I/O failure of the
\* read, the stat, the temp write or the rename returned False, and a call
\* returned True only for an empty batch or after its rename.
\* ------------------------------------------------------------------------
C28_ErrorsAreValues ==
    Returned =>
        /\ outcome # "raised"
        /\ outcome \in {"empty", "written", "precondition", "refused", "oserror", "error"}
        /\ outcome \in {"precondition", "refused", "oserror", "error"} => result = FALSE
        /\ result = TRUE => outcome \in {"empty", "written"}

\* a call whose read failed on a file that exists
C28_Witness ==
    /\ Returned
    /\ outcome = "error"
    /\ n_reads = 1
    /\ read_lines = <<>>
    /\ file_exists
    /\ file_lines # <<>>
    /\ result = FALSE

\* ------------------------------------------------------------------------
\* C29  No state carried between calls: when a call with targets has
\* returned after an earlier call and no other process has touched the file,
\* the call read what the earlier call left, the fencing check did not refuse
\* it, it returned True if every target met the precondition on that content,
\* and when it returned True every posting the earlier call set and this call
\* does not target still has the effective status the earlier call left it
\* with.
\* ------------------------------------------------------------------------
EarlierKept ==
    \A p \in Range(prev_targets) \ Targets :
        (/\ ValidTarget(prev_lines, p)
         /\ HeaderAbove(prev_lines, p) # 0)
        => EffectiveOf(file_lines, p, HeaderAbove(prev_lines, p))
             = EffectiveOf(prev_lines, p, HeaderAbove(prev_lines, p))

C29_NoStateCarried ==
    (Returned /\ calls >= 1 /\ ext_count = 0 /\ posting_line_numbers # <<>>)
    => /\ read_lines = prev_lines
       /\ outcome # "refused"
       /\ (\A t \in Targets : ~TargetFails(read_lines, t, expected_current_status))
            => result = TRUE
       /\ result = TRUE => EarlierKept

\* the part of C29 that is about the fencing check and the fresh read
C29_FencingNeverTripped ==
    (Returned /\ calls >= 1 /\ ext_count = 0 /\ posting_line_numbers # <<>>)
    => /\ read_lines = prev_lines
       /\ outcome # "refused"
       /\ (\A t \in Targets : ~TargetFails(read_lines, t, expected_current_status))
            => result = TRUE

\* ------------------------------------------------------------------------
\* C30  update_all_postings_in_transaction(h, s) on a header line h: the
\* call returns True, the header then carries exactly the marker s, and every
\* posting of the transaction has no marker of its own, so that its effective
\* status is s; for every s and every number of postings, none included.
\* ------------------------------------------------------------------------
C30_AllPostings ==
    (/\ Returned
     /\ transaction_line_number \in 1..Len(read_lines)
     /\ IsDated(read_lines[transaction_line_number]))
    => /\ result = TRUE
       /\ HeaderMarkerOf(file_lines[transaction_line_number]) = new_status
       /\ \A p \in Range(PostingsBelow(read_lines, transaction_line_number)) :
            /\ MarkerOf(file_lines[p]) = ""
            /\ EffectiveOf(file_lines, p, transaction_line_number) = new_status

\* the same on the transactions that have at least one posting
C30_AllPostingsNonEmpty ==
    (/\ Returned
     /\ transaction_line_number \in 1..Len(read_lines)
     /\ IsDated(read_lines[transaction_line_number])
     /\ PostingsBelow(read_lines, transaction_line_number) # <<>>)
    => /\ result = TRUE
       /\ HeaderMarkerOf(file_lines[transaction_line_number]) = new_status
       /\ \A p \in Range(PostingsBelow(read_lines, transaction_line_number)) :
            /\ MarkerOf(file_lines[p]) = ""
            /\ EffectiveOf(file_lines, p, transaction_line_number) = new_status

\* ------------------------------------------------------------------------
\* C31  update_transaction_status and update_posting_status with a line
\* number below 1 or above the number of lines of the file return False,
\* write nothing (no temp file, no rename, content and mtime as found) and do
\* not call mark_internal_change.
\* ------------------------------------------------------------------------
SingleLine == operation \in {"update_transaction_status", "update_posting_status"}

C31_InvalidLineNumber ==
    (/\ Returned
     /\ SingleLine
     /\ (line_number < 1 \/ line_number > Len(read_lines)))
    => /\ result = FALSE
       /\ Untouched
       /\ n_renames = 0
       /\ ~marked
       /\ ~ignore_next_change

\* line number 0 given to update_posting_status on a file whose last line
\* the rewrite would change
C31_Witness ==
    /\ Returned
    /\ operation = "update_posting_status"
    /\ line_number = 0
    /\ read_lines # <<>>
    /\ update_posting_line(read_lines[Len(read_lines)], new_status)
         # read_lines[Len(read_lines)]
    /\ result = FALSE
    /\ Untouched
    /\ ~marked

\* ------------------------------------------------------------------------
\* C35  No-op single-line updates do not write: when the rewrite of the
\* addressed line to new_status gives the line back as it was (a marker it
\* already carries, a non-header line given to update_transaction_status),
\* update_transaction_status and update_posting_status return False, write
\* nothing and do not call mark_internal_change; and whenever they return
\* True the addressed line has changed.
\* ------------------------------------------------------------------------
Rewritten(l) ==
    IF operation = "update_transaction_status"
    THEN update_transaction_line(l, new_status)
    ELSE update_posting_line(l, new_status)

C35_NoOpDoesNotWrite ==
    (/\ Returned
     /\ SingleLine
     /\ line_number \in 1..Len(read_lines))
    => /\ Rewritten(read_lines[line_number]) = read_lines[line_number]
            => /\ result = FALSE
               /\ Untouched
               /\ n_renames = 0
               /\ ~marked
               /\ ~ignore_next_change
       /\ result = TRUE => file_lines[line_number] # read_lines[line_number]

\* update_transaction_status with '*' on a posting line
C35_Witness ==
    /\ Returned
    /\ operation = "update_transaction_status"
    /\ new_status = "*"
    /\ line_number \in 1..Len(read_lines)
    /\ read_lines[line_number] = PostingPlain
    /\ result = FALSE
    /\ Untouched
    /\ ~marked

\* ------------------------------------------------------------------------
\* C32  Backward and forward scans agree: in the file the call read, every
\* valid posting line p whose backward search finds the header h is among the
\* lines the forward enumeration from h returns; and every target of a call
\* that returned True is among the lines enumerated for its owner.
\* ------------------------------------------------------------------------
C32_ScansAgree ==
    /\ \A p \in 1..Len(read_lines) :
            (/\ is_valid_posting_line(read_lines[p])
             /\ find_transaction_for_posting(read_lines, p) # 0)
            => p \in Range(find_all_postings_for_transaction(
                              read_lines, find_transaction_for_posting(read_lines, p)))
    /\ Succeeded
        => \A t \in Targets :
              t \in Range(find_all_postings_for_transaction(read_lines, owner(t)))

\* ------------------------------------------------------------------------
\* C33  Planner round trip: when update_postings_status(T, s, t) has
\* returned True and the same caller then calls update_postings_status(T, t,
\* s), that call returns True and every posting of the file has the
\* effective status it had in the lines the first call read.
\* ------------------------------------------------------------------------
IsReverse ==
    /\ Returned
    /\ calls = 1
    /\ ext_count = 0
    /\ prev_targets # <<>>
    /\ posting_line_numbers = prev_targets
    /\ expected_current_status = prev_new
    /\ new_status = prev_expected

C33_RoundTrip ==
    IsReverse
    => /\ result = TRUE
       /\ \A p \in 1..Len(prev_read) :
            (ValidTarget(prev_read, p) /\ HeaderAbove(prev_read, p) # 0)
            => EffectiveOf(file_lines, p, HeaderAbove(prev_read, p))
                 = EffectiveOf(prev_read, p, HeaderAbove(prev_read, p))

\* ------------------------------------------------------------------------
\* C34  Stale UI state is rejected: once action_toggle_status has notified,
\* the status it asked for is '!' when the cached status was unset and unset
\* otherwise; when the selected line is a posting with a header whose
\* effective status in the file read differs from the cached status, the
\* update returned False, the file is as it was and the notification is the
\* failure one; the success notification is given exactly on a True result.
\* ------------------------------------------------------------------------
C34_StaleRejected ==
    pc = "notified"
    => LET t == posting_line_numbers[1]
       IN  /\ new_status = (IF expected_current_status = "" THEN "!" ELSE "")
           /\ (/\ ValidTarget(read_lines, t)
               /\ HeaderAbove(read_lines, t) # 0
               /\ EffectiveOf(read_lines, t, HeaderAbove(read_lines, t))
                    # expected_current_status)
              => /\ result = FALSE
                 /\ Untouched
                 /\ notification = "failed"
           /\ notification = "updated" <=> result = TRUE

\* the list holds the posting as unset while the file has it pending
C34_Witness ==
    /\ pc = "notified"
    /\ expected_current_status = ""
    /\ new_status = "!"
    /\ ValidTarget(read_lines, posting_line_numbers[1])
    /\ HeaderAbove(read_lines, posting_line_numbers[1]) # 0
    /\ MarkerOf(read_lines[posting_line_numbers[1]]) = "!"
    /\ result = FALSE
    /\ notification = "failed"
    /\ Untouched

\* ------------------------------------------------------------------------
\* C36  One notification per external modification: of the events by which
\* one external modification reaches the watcher, at most one that finds a
\* given mtime on the file leads to a call of on_change.
\* ------------------------------------------------------------------------
C36_OneNotification == ~twice

\* both events of one modification dispatched with the same mtime on the
\* file: on_change called for the first, the second dropped
C36_Witness ==
    /\ events = <<>>
    /\ ext_count = 1
    /\ fired = {<<ExtTokens[1], mtime>>}
    /\ dropped = {<<ExtTokens[1], mtime>>}
    /\ last_modification_time = mtime
    /\ ~twice

\* ------------------------------------------------------------------------
\* C37  Order independence of the batch: a call with the same line numbers
\* in another order, or with some of them repeated, gives the same result
\* and the same file; and the lines rewritten for two transactions of one
\* batch (header and enumerated postings) have no line in common.
\* ------------------------------------------------------------------------
Variants(T) ==
    {V \in UNION {[1..k -> Range(T)] : k \in 1..(MaxTargets + 1)} : Range(V) = Range(T)}

LinesOf(h) == {h} \cup Range(PostingsBelow(read_lines, h))

C37_OrderIndependent ==
    (Returned /\ posting_line_numbers # <<>>)
    => /\ \A V \in Variants(posting_line_numbers) :
            /\ result = TRUE <=> (/\ validation_passes(read_lines, V, expected_current_status)
                                  /\ grouping_resolves(read_lines, V))
            /\ result = TRUE => rewrite_lines(read_lines, V, new_status) = file_lines
       /\ result = TRUE
            => \A h1 \in Affected, h2 \in Affected :
                  h1 # h2 => LinesOf(h1) \cap LinesOf(h2) = {}

\* a batch that names a posting of the second transaction before one of the
\* first, and changes both transactions
C37_Witness ==
    /\ Succeeded
    /\ Len(posting_line_numbers) = 2
    /\ posting_line_numbers[1] > posting_line_numbers[2]
    /\ owner(posting_line_numbers[1]) # owner(posting_line_numbers[2])
    /\ \A h \in Affected : \E i \in LinesOf(h) : file_lines[i] # read_lines[i]
    /\ file_lines = rewrite_lines(read_lines,
                                  <<posting_line_numbers[2], posting_line_numbers[1]>>,
                                  new_status)

====
